---- MODULE Spec2Model ----
(***************************************************************************)
(* Property-to-script compilation of ploteria: the key (legend) builder of *)
(* key.rs, the candlestick builder and plot operation of candlestick.rs    *)
(* and the filled-curve builder and plot operation of filledcurve.rs.      *)
(*                                                                         *)
(* Option<T> is a sequence of length at most one: None is <<>> and Some(v) *)
(* is <<v>>.  An f64 is an integer count of halves (3 is 1.5, -1 is -0.5), *)
(* so that 0.0 is 0 and 1.0 is 2; comparisons with 0 are the source's own. *)
(* Strings are TLA+ strings, built by concatenation as the code builds     *)
(* them with push_str and format!.                                         *)
(***************************************************************************)
EXTENDS Integers, Sequences, FiniteSets, TLC

VARIABLES
    key,     \* the figure's KeyProperties
    snap,    \* history: key as it was after the last call other than hide/show
    vis,     \* history: the last of hide/show called on key, "none" if neither
    toggles, \* history: the hide/show calls made since snap was taken
    cprops,  \* a candlestick Properties handed to a configuration callback
    fprops,  \* a filled-curve Properties handed to a configuration callback
    axes,    \* Figure.axes, the axis registry
    plots,   \* Figure.plots, the plot list
    last,    \* history: the last setter called, its argument and outcome
    call     \* history: the last plot call, its arguments, locals and outcome

vars == <<key, snap, vis, toggles, cprops, fprops, axes, plots, last, call>>

(***************************************************************************)
(* Bounds and input sets                                                   *)
(***************************************************************************)
MaxLen == 2      \* longest coordinate sequence handed to a plot call
MaxCalls == 1    \* most setter calls made by one configuration callback
MaxPlots == 2    \* most elements the plot list grows to
MaxToggles == 2  \* most consecutive hide/show calls on the key

None == <<>>
Some(v) == <<v>>

Bools == {TRUE, FALSE}
Verticals == {"Bottom", "Center", "Top"}
Horizontals == {"Center", "Left", "Right"}
Justifications == {"Left", "Right"}
Orders == {"SampleText", "TextSample"}
Stackeds == {"Horizontally", "Vertically"}
Positions == [kind : {"Inside", "Outside"}, v : Verticals, h : Horizontals]
Titles == {"t", "a'b"}

NoCall == [on |-> "none", op |-> "none", arg |-> None, outcome |-> "ok"]
NoPlot == [kind |-> "none", args |-> None, cfg |-> <<>>, factors |-> None,
           data |-> <<>>, props |-> None, outcome |-> "ok", completed |-> 0]

(***************************************************************************)
(* key.rs                                                                  *)
(***************************************************************************)
KeyDefault ==
    [boxed |-> FALSE, hidden |-> FALSE, justification |-> None,
     order |-> None, position |-> None, stacked |-> None, title |-> None]

hide(k) == [k EXCEPT !.hidden = TRUE]
showClearingTitle(k) == [k EXCEPT !.hidden = FALSE, !.title = None]
show(k) == [k EXCEPT !.hidden = FALSE]
boxed(k, b) == [k EXCEPT !.boxed = b]
justification(k, j) == [k EXCEPT !.justification = Some(j)]
order(k, o) == [k EXCEPT !.order = Some(o)]
position(k, p) == [k EXCEPT !.position = Some(p)]
stacked(k, s) == [k EXCEPT !.stacked = Some(s)]
title(k, t) == [k EXCEPT !.title = Some(t)]

\* Display of the key's enumerations: a canonical text per value.
VerticalDisplay(v) ==
    CASE v = "Bottom" -> "bottom" [] v = "Center" -> "center" [] v = "Top" -> "top"
HorizontalDisplay(h) ==
    CASE h = "Center" -> "center" [] h = "Left" -> "left" [] h = "Right" -> "right"
StackedDisplay(s) ==
    CASE s = "Horizontally" -> "horizontal" [] s = "Vertically" -> "vertical"
JustificationDisplay(j) ==
    CASE j = "Left" -> "Left" [] j = "Right" -> "Right"
OrderDisplay(o) ==
    CASE o = "SampleText" -> "reverse" [] o = "TextSample" -> "noreverse"

KeyPositionPart(k) ==
    IF k.position = None THEN ""
    ELSE LET p == k.position[1] IN
         IF p.kind = "Inside"
         THEN "inside " \o VerticalDisplay(p.v) \o " " \o HorizontalDisplay(p.h) \o " "
         ELSE "outside " \o VerticalDisplay(p.v) \o " " \o HorizontalDisplay(p.h) \o " "
KeyStackedPart(k) ==
    IF k.stacked = None THEN "" ELSE StackedDisplay(k.stacked[1]) \o " "
KeyJustificationPart(k) ==
    IF k.justification = None THEN "" ELSE JustificationDisplay(k.justification[1]) \o " "
KeyOrderPart(k) ==
    IF k.order = None THEN "" ELSE OrderDisplay(k.order[1]) \o " "
KeyTitlePart(k) ==
    IF k.title = None THEN "" ELSE "title '" \o k.title[1] \o "' "
KeyBoxPart(k) ==
    IF k.boxed THEN "box " ELSE ""

KeyScriptNoHiddenCheck(k) ==
    "set key on " \o KeyPositionPart(k) \o KeyStackedPart(k)
        \o KeyJustificationPart(k) \o KeyOrderPart(k) \o KeyTitlePart(k)
        \o KeyBoxPart(k) \o "\n"
KeyScriptTitleFirst(k) ==
    IF k.hidden THEN "set key off\n"
    ELSE "set key on " \o KeyTitlePart(k) \o KeyPositionPart(k) \o KeyStackedPart(k)
             \o KeyJustificationPart(k) \o KeyOrderPart(k)
             \o KeyBoxPart(k) \o "\n"
KeyScript(k) ==
    IF k.hidden THEN "set key off\n"
    ELSE "set key on " \o KeyPositionPart(k) \o KeyStackedPart(k)
             \o KeyJustificationPart(k) \o KeyOrderPart(k) \o KeyTitlePart(k)
             \o KeyBoxPart(k) \o "\n"

(***************************************************************************)
(* Value types shared by the two plot-element builders                     *)
(***************************************************************************)
Colors == {"Red"}
Labels == {"a'b"}
LineTypes == {"Solid", "Dash"}
AxesPairs == {"BottomXLeftY", "TopXRightY"}
Widths == {-1, 0, 1, 3}         \* -0.5, 0, 0.5, 1.5
Opacities == {-1, 0, 1, 2, 3}   \* -0.5, 0, 0.5, 1, 1.5

ColorDisplay(c) == CASE c = "Red" -> "red"
LineTypeDisplay(lt) == CASE lt = "Solid" -> "solid" [] lt = "Dash" -> "dash"
AxesDisplay(a) == CASE a = "BottomXLeftY" -> "x1y1" [] a = "TopXRightY" -> "x2y2"

\* format!("{}", v) of an f64: shortest decimal, no trailing ".0"
fmt_f64(n) ==
    LET a == IF n < 0 THEN 0 - n ELSE n IN
    (IF n < 0 THEN "-" ELSE "") \o ToString(a \div 2)
        \o (IF a % 2 = 1 THEN ".5" ELSE "")

(***************************************************************************)
(* candlestick.rs: Properties                                              *)
(***************************************************************************)
CandleDefault ==
    [color |-> None, label |-> None, line_type |-> "Solid", linewidth |-> None]

candle_color(p, c) == [p EXCEPT !.color = Some(c)]
candle_label(p, l) == [p EXCEPT !.label = Some(l)]
candle_line_type(p, lt) == [p EXCEPT !.line_type = lt]

\* assert!(lw > 0.)
line_width_assert_nonneg(lw) == lw >= 0
line_width_assert(lw) == lw > 0
candle_line_width(p, lw) == [p EXCEPT !.linewidth = Some(lw)]

CandleScriptColorFirst(p) ==
    "with candlesticks " \o "lt " \o LineTypeDisplay(p.line_type) \o " "
        \o (IF p.color = None THEN ""
            ELSE "lc rgb '" \o ColorDisplay(p.color[1]) \o "' ")
        \o (IF p.linewidth = None THEN ""
            ELSE "lw " \o fmt_f64(p.linewidth[1]) \o " ")
        \o (IF p.label = None THEN "notitle"
            ELSE "title '" \o p.label[1] \o "'")
CandleScript(p) ==
    "with candlesticks " \o "lt " \o LineTypeDisplay(p.line_type) \o " "
        \o (IF p.linewidth = None THEN ""
            ELSE "lw " \o fmt_f64(p.linewidth[1]) \o " ")
        \o (IF p.color = None THEN ""
            ELSE "lc rgb '" \o ColorDisplay(p.color[1]) \o "' ")
        \o (IF p.label = None THEN "notitle"
            ELSE "title '" \o p.label[1] \o "'")

\* One setter call made by a configuration callback on a candlestick
\* Properties: the properties after the call and whether the call returned.
CandleSetterCalls ==
    [op : {"color"}, arg : Colors] \cup [op : {"label"}, arg : Labels]
        \cup [op : {"line_type"}, arg : LineTypes]
        \cup [op : {"line_width"}, arg : Widths]
CandleApply(p, c) ==
    CASE c.op = "color" -> [ok |-> TRUE, props |-> candle_color(p, c.arg)]
      [] c.op = "label" -> [ok |-> TRUE, props |-> candle_label(p, c.arg)]
      [] c.op = "line_type" -> [ok |-> TRUE, props |-> candle_line_type(p, c.arg)]
      [] c.op = "line_width" ->
            IF line_width_assert(c.arg)
            THEN [ok |-> TRUE, props |-> candle_line_width(p, c.arg)]
            ELSE [ok |-> FALSE, props |-> p]

(***************************************************************************)
(* filledcurve.rs: Properties                                              *)
(***************************************************************************)
FilledDefault ==
    [axes |-> None, color |-> None, label |-> None, opacity |-> None]

filled_axes(p, a) == [p EXCEPT !.axes = Some(a)]
filled_color(p, c) == [p EXCEPT !.color = Some(c)]
filled_label(p, l) == [p EXCEPT !.label = Some(l)]
filled_opacity(p, o) == [p EXCEPT !.opacity = Some(o)]

FilledScriptEchoOpacity(p) ==
    (IF p.axes = None THEN "" ELSE "axes " \o AxesDisplay(p.axes[1]) \o " ")
        \o "with filledcurves " \o "fillstyle "
        \o (IF p.opacity = None THEN "solid 1 "
            ELSE "solid " \o fmt_f64(p.opacity[1]) \o " ")
        \o "noborder "
        \o (IF p.color = None THEN ""
            ELSE "lc rgb '" \o ColorDisplay(p.color[1]) \o "' ")
        \o (IF p.label = None THEN "notitle"
            ELSE "title '" \o p.label[1] \o "'")
FilledScript(p) ==
    (IF p.axes = None THEN "" ELSE "axes " \o AxesDisplay(p.axes[1]) \o " ")
        \o "with filledcurves " \o "fillstyle "
        \o (IF p.opacity = None THEN ""
            ELSE "solid " \o fmt_f64(p.opacity[1]) \o " ")
        \o "noborder "
        \o (IF p.color = None THEN ""
            ELSE "lc rgb '" \o ColorDisplay(p.color[1]) \o "' ")
        \o (IF p.label = None THEN "notitle"
            ELSE "title '" \o p.label[1] \o "'")

FilledSetterCalls ==
    [op : {"axes"}, arg : AxesPairs] \cup [op : {"color"}, arg : Colors]
        \cup [op : {"label"}, arg : Labels]
        \cup [op : {"opacity"}, arg : Opacities]
\* No filled-curve setter has a failing path: opacity stores its argument
\* unconditionally.
FilledApply(p, c) ==
    CASE c.op = "axes" -> [ok |-> TRUE, props |-> filled_axes(p, c.arg)]
      [] c.op = "color" -> [ok |-> TRUE, props |-> filled_color(p, c.arg)]
      [] c.op = "label" -> [ok |-> TRUE, props |-> filled_label(p, c.arg)]
      [] c.op = "opacity" -> [ok |-> TRUE, props |-> filled_opacity(p, c.arg)]

(***************************************************************************)
(* The figure: axis registry, coordinate sequences, data table             *)
(***************************************************************************)
Axis == {"BottomX", "TopX", "LeftY", "RightY"}
\* The registry gives every axis its scale factor; 1 when never configured.
Registries ==
    { [a \in Axis |-> 1],
      [a \in Axis |-> CASE a = "BottomX" -> 2 [] a = "TopX" -> 3
                        [] a = "LeftY" -> 5 [] a = "RightY" -> 7] }

scale_factor(ax, pair) ==
    CASE pair = "BottomXLeftY" -> <<ax["BottomX"], ax["LeftY"]>>
      [] pair = "BottomXRightY" -> <<ax["BottomX"], ax["RightY"]>>
      [] pair = "TopXLeftY" -> <<ax["TopX"], ax["LeftY"]>>
      [] pair = "TopXRightY" -> <<ax["TopX"], ax["RightY"]>>

Min2(a, b) == IF a <= b THEN a ELSE b

\* izip!: position-wise tuples, ending with the shortest sequence
izip5(a, b, c, d, e) ==
    [i \in 1..Min2(Len(a), Min2(Len(b), Min2(Len(c), Min2(Len(d), Len(e)))))
        |-> <<a[i], b[i], c[i], d[i], e[i]>>]
izip3(a, b, c) ==
    [i \in 1..Min2(Len(a), Min2(Len(b), Len(c))) |-> <<a[i], b[i], c[i]>>]

\* Matrix::new: one row per tuple, column j multiplied by the j-th factor
MatrixNew(rows, factors) ==
    [i \in 1..Len(rows) |-> [j \in 1..Len(factors) |-> rows[i][j] * factors[j]]]

\* Plot::new: the table and the serialized fragment
PlotNew(data, script) == [data |-> data, script |-> script]

\* The n first values of coordinate sequence number c; the sequences of one
\* call have no value in common.
Column(c, n) == [i \in 1..n |-> 10 * c + i]
\* The lengths of the n coordinate sequences of one call: all of the full
\* length, or one of them one element short.
Lens == (MaxLen - 1)..MaxLen
ArgLens(n) ==
    {l \in [1..n -> Lens] : Cardinality({i \in 1..n : l[i] < MaxLen}) <= 1}

\* The configuration callbacks handed to a plot call: up to MaxCalls setter
\* calls in a row, among them the aborting line_width(0) and both axes(..).
BoundedSeq(S, n) == UNION {[1..m -> S] : m \in 0..n}
CandleCallbacks ==
    BoundedSeq({c \in CandleSetterCalls :
                    \/ c.op = "label"
                    \/ c.op = "line_width" /\ c.arg \in {0, 3}}, MaxCalls)
FilledCallbacks ==
    BoundedSeq({c \in FilledSetterCalls :
                    \/ c.op = "axes"
                    \/ c.op = "opacity" /\ c.arg = 3}, MaxCalls)

\* configure(&mut props): the callback's setter calls in order; a panicking
\* call ends the callback.
RECURSIVE CandleConfigure(_, _)
CandleConfigure(p, cfg) ==
    IF cfg = <<>> THEN [ok |-> TRUE, props |-> p]
    ELSE LET r == CandleApply(p, Head(cfg)) IN
         IF r.ok THEN CandleConfigure(r.props, Tail(cfg)) ELSE r
RECURSIVE FilledConfigure(_, _)
FilledConfigure(p, cfg) ==
    IF cfg = <<>> THEN [ok |-> TRUE, props |-> p]
    ELSE LET r == FilledApply(p, Head(cfg)) IN
         IF r.ok THEN FilledConfigure(r.props, Tail(cfg)) ELSE r

(***************************************************************************)
(* candlestick.rs: <Figure as Plot<Candlesticks>>::plot                    *)
(***************************************************************************)
CandlestickFactors(ax) == scale_factor(ax, "BottomXLeftY")

CandlestickDataFieldOrder(c, f) ==
    MatrixNew(izip5(c.x, c.whisker_min, c.box_min, c.box_high, c.whisker_high),
              <<f[1], f[2], f[2], f[2], f[2]>>)
CandlestickData(c, f) ==
    MatrixNew(izip5(c.x, c.box_min, c.whisker_min, c.whisker_high, c.box_high),
              <<f[1], f[2], f[2], f[2], f[2]>>)

\* self.plots.push(Plot::new(data, configure(..))): the push is reached only
\* when configure returned.
CandlestickPushAlways(pl, data, r) ==
    Append(pl, PlotNew(data, CandleScript(r.props)))
CandlestickPush(pl, data, r) ==
    IF r.ok THEN Append(pl, PlotNew(data, CandleScript(r.props))) ELSE pl

(***************************************************************************)
(* filledcurve.rs: <Figure as Plot<FilledCurve>>::plot                     *)
(***************************************************************************)
unwrap_or(opt, d) == IF opt = None THEN d ELSE opt[1]

\* Resolved after configure(&mut props), from the configured props.axes
FilledFactorsBeforeConfigure(ax, props) ==
    scale_factor(ax, unwrap_or(FilledDefault.axes, "BottomXLeftY"))
FilledFactors(ax, props) ==
    scale_factor(ax, unwrap_or(props.axes, "BottomXLeftY"))

FilledData(fc, f) ==
    MatrixNew(izip3(fc.x, fc.y1, fc.y2), <<f[1], f[2], f[2]>>)

FilledPush(pl, data, r) ==
    IF r.ok THEN Append(pl, PlotNew(data, FilledScript(r.props))) ELSE pl

(***************************************************************************)
(* Initial state: a new figure, a default key, default properties          *)
(***************************************************************************)
Init ==
    /\ key = KeyDefault
    /\ snap = KeyDefault
    /\ vis = "none"
    /\ toggles = <<>>
    /\ cprops = CandleDefault
    /\ fprops = FilledDefault
    /\ axes \in Registries
    /\ plots = <<>>
    /\ last = NoCall
    /\ call = NoPlot

(***************************************************************************)
(* Calls on the key                                                        *)
(***************************************************************************)
KeyCall(op, arg) == [on |-> "key", op |-> op, arg |-> arg, outcome |-> "ok"]
KeyOthers == UNCHANGED <<cprops, fprops, axes, plots, call>>

Hide ==
    /\ Len(toggles) < MaxToggles
    /\ key' = hide(key)
    /\ vis' = "hide"
    /\ toggles' = Append(toggles, "hide")
    /\ last' = KeyCall("hide", None)
    /\ UNCHANGED snap
    /\ KeyOthers

Show ==
    /\ Len(toggles) < MaxToggles
    /\ key' = show(key)
    /\ vis' = "show"
    /\ toggles' = Append(toggles, "show")
    /\ last' = KeyCall("show", None)
    /\ UNCHANGED snap
    /\ KeyOthers

KeySet(k, op, arg) ==
    /\ key' = k
    /\ snap' = k
    /\ toggles' = <<>>
    /\ last' = KeyCall(op, arg)
    /\ UNCHANGED vis
    /\ KeyOthers

Boxed == \E b \in Bools : KeySet(boxed(key, b), "boxed", b)
Justification == \E j \in Justifications : KeySet(justification(key, j), "justification", j)
Order == \E o \in Orders : KeySet(order(key, o), "order", o)
Position == \E p \in Positions : KeySet(position(key, p), "position", p)
Stacked == \E s \in Stackeds : KeySet(stacked(key, s), "stacked", s)
Title == \E t \in Titles : KeySet(title(key, t), "title", t)

NextKey ==
    \/ Hide
    \/ Show
    \/ Boxed
    \/ Justification
    \/ Order
    \/ Position
    \/ Stacked
    \/ Title

SpecKey == Init /\ [][NextKey]_vars

(***************************************************************************)
(* Setter calls on the properties a configuration callback was handed      *)
(***************************************************************************)
PropsOthers == UNCHANGED <<key, snap, vis, toggles, axes, plots, call>>

\* A panic unwinds out of the callback and of the plot call: nothing more is
\* called once an assertion has failed.
Running == last.outcome # "panic" /\ call.outcome # "panic"

CandleNew ==
    /\ Running
    /\ cprops' = CandleDefault
    /\ last' = [on |-> "candle", op |-> "default", arg |-> None, outcome |-> "ok"]
    /\ UNCHANGED fprops
    /\ PropsOthers

CandleStep(c) ==
    /\ Running
    /\ LET r == CandleApply(cprops, c) IN
           /\ cprops' = r.props
           /\ last' = [on |-> "candle", op |-> c.op, arg |-> c.arg,
                       outcome |-> IF r.ok THEN "ok" ELSE "panic"]
    /\ UNCHANGED fprops
    /\ PropsOthers

CandleColor == \E c \in Colors : CandleStep([op |-> "color", arg |-> c])
CandleLabel == \E l \in Labels : CandleStep([op |-> "label", arg |-> l])
CandleLineType == \E lt \in LineTypes : CandleStep([op |-> "line_type", arg |-> lt])
CandleLineWidth == \E lw \in Widths : CandleStep([op |-> "line_width", arg |-> lw])

FilledNew ==
    /\ Running
    /\ fprops' = FilledDefault
    /\ last' = [on |-> "filled", op |-> "default", arg |-> None, outcome |-> "ok"]
    /\ UNCHANGED cprops
    /\ PropsOthers

FilledStep(c) ==
    /\ Running
    /\ LET r == FilledApply(fprops, c) IN
           /\ fprops' = r.props
           /\ last' = [on |-> "filled", op |-> c.op, arg |-> c.arg,
                       outcome |-> IF r.ok THEN "ok" ELSE "panic"]
    /\ UNCHANGED cprops
    /\ PropsOthers

FilledAxes == \E a \in AxesPairs : FilledStep([op |-> "axes", arg |-> a])
FilledColor == \E c \in Colors : FilledStep([op |-> "color", arg |-> c])
FilledLabel == \E l \in Labels : FilledStep([op |-> "label", arg |-> l])
FilledOpacity == \E o \in Opacities : FilledStep([op |-> "opacity", arg |-> o])

NextProps ==
    \/ CandleNew
    \/ CandleColor
    \/ CandleLabel
    \/ CandleLineType
    \/ CandleLineWidth
    \/ FilledNew
    \/ FilledAxes
    \/ FilledColor
    \/ FilledLabel
    \/ FilledOpacity

SpecProps == Init /\ [][NextProps]_vars

(***************************************************************************)
(* Plot calls on the figure                                                *)
(***************************************************************************)
PlotOthers == UNCHANGED <<key, snap, vis, toggles, cprops, fprops, last>>

CandlestickPlot ==
    /\ Running
    /\ Len(plots) < MaxPlots
    /\ \E l \in ArgLens(5), configure \in CandleCallbacks :
        LET candlesticks == [x |-> Column(1, l[1]), whisker_min |-> Column(2, l[2]),
                             box_min |-> Column(3, l[3]), box_high |-> Column(4, l[4]),
                             whisker_high |-> Column(5, l[5])]
            f == CandlestickFactors(axes)
            data == CandlestickData(candlesticks, f)
            r == CandleConfigure(CandleDefault, configure)
        IN /\ plots' = CandlestickPush(plots, data, r)
           /\ call' = [kind |-> "candlesticks", args |-> candlesticks,
                       cfg |-> configure, factors |-> f, data |-> data,
                       props |-> r.props,
                       outcome |-> IF r.ok THEN "ok" ELSE "panic",
                       completed |-> call.completed + (IF r.ok THEN 1 ELSE 0)]
           /\ UNCHANGED axes
           /\ PlotOthers

FilledCurvePlot ==
    /\ Running
    /\ Len(plots) < MaxPlots
    /\ \E l \in ArgLens(3), configure \in FilledCallbacks :
        LET fc == [x |-> Column(1, l[1]), y1 |-> Column(2, l[2]), y2 |-> Column(3, l[3])]
            r == FilledConfigure(FilledDefault, configure)
            f == FilledFactors(axes, r.props)
            data == FilledData(fc, f)
        IN /\ plots' = FilledPush(plots, data, r)
           /\ call' = [kind |-> "filledcurve", args |-> fc,
                       cfg |-> configure, factors |-> f, data |-> data,
                       props |-> r.props,
                       outcome |-> IF r.ok THEN "ok" ELSE "panic",
                       completed |-> call.completed + (IF r.ok THEN 1 ELSE 0)]
           /\ UNCHANGED axes
           /\ PlotOthers

Next ==
    \/ CandlestickPlot
    \/ FilledCurvePlot

Spec == Init /\ [][Next]_vars

(***************************************************************************)
(* Properties of the key                                                   *)
(***************************************************************************)

\* C3: when the last hide/show call made on a KeyProperties is hide(), its
\* script is exactly "set key off\n", whatever the other fields hold and
\* whether they were set before or after the hide().
C3_HiddenScriptIsKeyOff ==
    vis = "hide" => KeyScript(key) = "set key off\n"

C3_Witness ==
    /\ vis = "hide"
    /\ last.op = "title"
    /\ key.position # None
    /\ key.boxed

C5_Placement(k) ==
    IF k.position = None THEN ""
    ELSE (IF k.position[1].kind = "Inside" THEN "inside" ELSE "outside")
             \o " " \o VerticalDisplay(k.position[1].v)
             \o " " \o HorizontalDisplay(k.position[1].h) \o " "
C5_Expected(k) ==
    "set key on "
        \o C5_Placement(k)
        \o (IF k.stacked = None THEN "" ELSE StackedDisplay(k.stacked[1]) \o " ")
        \o (IF k.justification = None THEN ""
            ELSE JustificationDisplay(k.justification[1]) \o " ")
        \o (IF k.order = None THEN "" ELSE OrderDisplay(k.order[1]) \o " ")
        \o (IF k.title = None THEN "" ELSE "title '" \o k.title[1] \o "' ")
        \o (IF k.boxed THEN "box " ELSE "")
        \o "\n"

\* C5: the script of a key that is not hidden is "set key on " followed by
\* placement, stacking, justification, order, title and box, in that order,
\* each present exactly when its field is set (box when boxed is true), and
\* a newline; the script of the default key is "set key on \n".
C5_ShownScriptOrder ==
    /\ ~key.hidden => KeyScript(key) = C5_Expected(key)
    /\ key = KeyDefault => KeyScript(key) = "set key on \n"

C5_Witness ==
    /\ ~key.hidden
    /\ key.position # None
    /\ key.stacked # None
    /\ key.justification # None
    /\ key.order # None
    /\ key.title = Some("a'b")
    /\ key.boxed

\* C6: hide() and show() change only the visibility flag: boxed,
\* justification, order, position, stacked and title are what the last other
\* setter left, and when that setter left the key shown, hide/show calls
\* ending with show() give back the same fields and the same script.
C6_ToggleKeepsFields ==
    /\ key.boxed = snap.boxed
    /\ key.justification = snap.justification
    /\ key.order = snap.order
    /\ key.position = snap.position
    /\ key.stacked = snap.stacked
    /\ key.title = snap.title
    /\ (last.op = "show" /\ ~snap.hidden) =>
           (key = snap /\ KeyScript(key) = KeyScript(snap))

C6_Witness ==
    /\ toggles = <<"hide", "show">>
    /\ ~snap.hidden
    /\ snap.title # None
    /\ snap.position # None
    /\ snap.boxed
    /\ KeyScript(key) # "set key on \n"

(***************************************************************************)
(* Properties of the plot-element builders                                 *)
(***************************************************************************)

\* C1: the filled-curve opacity(o) setter aborts for every o below 0 or
\* above 1 and stores nothing, and stores o for every o from 0 to 1, so the
\* stored opacity, when present, is never outside [0, 1].  (1.0 is 2 halves.)
C1_OpacityOutsideUnitIntervalRejected ==
    /\ fprops.opacity # None =>
           (0 <= fprops.opacity[1] /\ fprops.opacity[1] <= 2)
    /\ (last.on = "filled" /\ last.op = "opacity") =>
           IF 0 <= last.arg /\ last.arg <= 2
           THEN last.outcome = "ok" /\ fprops.opacity = Some(last.arg)
           ELSE last.outcome = "panic"

\* C2: the candlestick line_width(w) setter aborts for every w <= 0 and
\* leaves the properties as they were, and stores w for every w > 0; the
\* stored line width, when present, is strictly positive.
C2_LineWidthPositive ==
    [][ /\ (cprops'.linewidth # None => cprops'.linewidth[1] > 0)
        /\ (last'.on = "candle" /\ last'.op = "line_width") =>
               IF last'.arg <= 0
               THEN last'.outcome = "panic" /\ cprops' = cprops
               ELSE /\ last'.outcome = "ok"
                    /\ cprops' = [cprops EXCEPT !.linewidth = Some(last'.arg)]
      ]_vars

C2_Witness ==
    /\ last.on = "candle"
    /\ last.op = "line_width"
    /\ last.arg <= 0
    /\ last.outcome = "panic"
    /\ cprops.linewidth = Some(3)

C8_Expected(p) ==
    "with candlesticks lt " \o LineTypeDisplay(p.line_type) \o " "
        \o (IF p.linewidth # None THEN "lw " \o fmt_f64(p.linewidth[1]) \o " " ELSE "")
        \o (IF p.color # None THEN "lc rgb '" \o ColorDisplay(p.color[1]) \o "' " ELSE "")
        \o (IF p.label # None THEN "title '" \o p.label[1] \o "'" ELSE "notitle")

\* C8: the script of a candlestick Properties is "with candlesticks lt
\* <style> ", then "lw <width> " exactly when a line width is set, then
\* "lc rgb '<color>' " exactly when a color is set, then "title '<label>'"
\* when a label is set and "notitle" otherwise; the line type is Solid when
\* line_type was never called.
C8_CandleScriptOrder ==
    /\ CandleScript(cprops) = C8_Expected(cprops)
    /\ cprops = CandleDefault =>
           CandleScript(cprops) = "with candlesticks lt solid notitle"

C8_Witness ==
    /\ cprops.linewidth = Some(3)
    /\ cprops.color # None
    /\ cprops.label # None
    /\ cprops.line_type = "Dash"
    /\ CandleScript(cprops) = "with candlesticks lt dash lw 1.5 lc rgb 'red' title 'a'b'"

C9_Expected(p) ==
    (IF p.axes # None THEN "axes " \o AxesDisplay(p.axes[1]) \o " " ELSE "")
        \o "with filledcurves fillstyle "
        \o (IF p.opacity # None THEN "solid " \o fmt_f64(p.opacity[1]) \o " " ELSE "")
        \o "noborder "
        \o (IF p.color # None THEN "lc rgb '" \o ColorDisplay(p.color[1]) \o "' " ELSE "")
        \o (IF p.label # None THEN "title '" \o p.label[1] \o "'" ELSE "notitle")

\* C9: the script of a filled-curve Properties is "axes <id> " exactly when
\* axes is set, then "with filledcurves fillstyle ", then "solid <opacity> "
\* exactly when an opacity is set, then "noborder ", then "lc rgb '<color>' "
\* exactly when a color is set, then "title '<label>'" when a label is set
\* and "notitle" otherwise.
C9_FilledScriptOrder ==
    /\ FilledScript(fprops) = C9_Expected(fprops)
    /\ fprops = FilledDefault =>
           FilledScript(fprops) = "with filledcurves fillstyle noborder notitle"

C9_Witness ==
    /\ fprops.axes = Some("TopXRightY")
    /\ fprops.opacity = None
    /\ fprops.color # None
    /\ fprops.label # None
    /\ last.on = "filled"
    /\ FilledScript(fprops)
           = "axes x2y2 with filledcurves fillstyle noborder lc rgb 'red' title 'a'b'"

(***************************************************************************)
(* Properties of the plot operations                                       *)
(***************************************************************************)

\* The axis pair a callback leaves configured: the argument of its last
\* axes(..) call, BottomXLeftY when it makes none.
C4_AxesSet(cfg) ==
    LET at == {i \in 1..Len(cfg) : cfg[i].op = "axes"} IN
    IF at = {} THEN "BottomXLeftY"
    ELSE cfg[CHOOSE i \in at : \A j \in at : j <= i].arg

\* C4: in the filled-curve plot operation the factors applied to the
\* (x, y1, y2) columns are those the axis registry gives for the axis pair
\* the callback set with axes(..), and those of BottomXLeftY only when the
\* callback set none.
C4_FactorsOfConfiguredAxes ==
    call.kind = "filledcurve" =>
        LET f == scale_factor(axes, C4_AxesSet(call.cfg)) IN
        /\ call.factors = f
        /\ \A i \in 1..Len(call.data) :
               call.data[i] = <<call.args.x[i] * f[1], call.args.y1[i] * f[2],
                                call.args.y2[i] * f[2]>>

C4_Witness ==
    /\ call.kind = "filledcurve"
    /\ call.outcome = "ok"
    /\ C4_AxesSet(call.cfg) = "TopXRightY"
    /\ scale_factor(axes, "TopXRightY") # scale_factor(axes, "BottomXLeftY")
    /\ Len(call.data) > 0
    /\ plots[Len(plots)].data = call.data

C7_Shortest(c) ==
    CHOOSE n \in {Len(c.x), Len(c.whisker_min), Len(c.box_min), Len(c.box_high),
                  Len(c.whisker_high)} :
        /\ n <= Len(c.x)
        /\ n <= Len(c.whisker_min)
        /\ n <= Len(c.box_min)
        /\ n <= Len(c.box_high)
        /\ n <= Len(c.whisker_high)

\* C7: the candlestick plot operation builds a table with as many rows as
\* the shortest of its five sequences; row i is (x[i], box_min[i],
\* whisker_min[i], whisker_high[i], box_high[i]), x scaled by the x-factor
\* and the others by the y-factor of BottomXLeftY, whatever the callback
\* does; the operation fails only when the callback aborts.
C7_CandlestickTable ==
    call.kind = "candlesticks" =>
        LET c == call.args
            f == scale_factor(axes, "BottomXLeftY")
        IN /\ Len(call.data) = C7_Shortest(c)
           /\ \A i \in 1..Len(call.data) :
                  call.data[i] = <<c.x[i] * f[1], c.box_min[i] * f[2],
                                   c.whisker_min[i] * f[2],
                                   c.whisker_high[i] * f[2],
                                   c.box_high[i] * f[2]>>
           /\ call.outcome = "panic" =>
                  \E i \in 1..Len(call.cfg) :
                      call.cfg[i].op = "line_width" /\ call.cfg[i].arg <= 0

C7_Witness ==
    /\ call.kind = "candlesticks"
    /\ call.outcome = "ok"
    /\ Len(call.args.x) = MaxLen
    /\ Len(call.args.whisker_min) = MaxLen - 1
    /\ Len(call.data) = MaxLen - 1
    /\ Len(call.data) > 0
    /\ scale_factor(axes, "BottomXLeftY") = <<2, 5>>
    /\ call.cfg # <<>>
    /\ plots[Len(plots)].data = call.data

\* C10: the plot list holds one element per completed plot call, in call
\* order: a completed call appends its table and its serialized fragment at
\* the end and leaves the earlier elements and the axis registry unchanged;
\* a call whose callback aborts appends nothing.
C10_OneElementPerCompletedCall ==
    [][ /\ axes' = axes
        /\ Len(plots') = call'.completed
        /\ IF call'.outcome = "ok"
           THEN /\ Len(plots') = Len(plots) + 1
                /\ SubSeq(plots', 1, Len(plots)) = plots
                /\ plots'[Len(plots')].data = call'.data
                /\ plots'[Len(plots')].script =
                       IF call'.kind = "candlesticks"
                       THEN C8_Expected(call'.props)
                       ELSE C9_Expected(call'.props)
           ELSE plots' = plots
      ]_vars

C10_Witness ==
    /\ Len(plots) = 1
    /\ call.completed = 1
    /\ call.kind = "candlesticks"
    /\ call.outcome = "panic"
    /\ plots[1].script = "axes x2y2 with filledcurves fillstyle noborder notitle"

====
